---- MODULE Spec2Model ----
(***************************************************************************)
(* Model of pickship.py: make_pickship unrolls an order into unit items,   *)
(* first_fit_descending_pack packs them into bins of bounded weight, and    *)
(* the bins are rerolled into the boxes of a PickShip.                      *)
(***************************************************************************)
EXTENDS Integers, Sequences, FiniteSets, TLC

(* ---------------------------- bounds ----------------------------------- *)
MaxWeight == 2
MaxCapacity == 2
MaxQty == 2
MaxLines == 2
\* significant bits of a weight (a Python float has 53)
Precision == 3

(* ---------------------------- input domains ---------------------------- *)
KnownCodes == {"a", "b"}
UnknownCode == "z"
Codes == KnownCodes \cup {UnknownCode}
Weights == 0..MaxWeight
Capacities == (-1)..MaxCapacity
Quantities == (-1)..MaxQty

KeyError == "KeyError"
ItemSizeError == "Error: Item size greater than bin capacity."

VARIABLES order, inventory, capacity,
          pc, li, items, sorted_items, k, bins, b, boxes, pickship, err,
          run, prev, handle, scan, line, hist

inputs == <<order, inventory, capacity>>
vars == <<order, inventory, capacity, pc, li, items, sorted_items, k, bins,
          b, boxes, pickship, err, run, prev, handle, scan, line, hist>>
parser == <<scan, line, hist>>

(* ---------------------------- float arithmetic -------------------------- *)
\* Weights are floats (weight = float(...)): every sum, difference and
\* product is rounded to the nearest value with Precision significant bits,
\* ties to the even mantissa.  Values are counted in a unit small enough for
\* every input weight to be an integer.
RECURSIVE Exponent(_)
Exponent(n) == IF n < 2 ^ Precision THEN 0 ELSE 1 + Exponent(n \div 2)

RoundNat(n) ==
    LET e == Exponent(n)
        q == n \div (2 ^ e)
        r == n % (2 ^ e)
    IN IF e = 0 THEN n
       ELSE IF 2 * r > 2 ^ e \/ (2 * r = 2 ^ e /\ q % 2 = 1)
            THEN (q + 1) * (2 ^ e)
            ELSE q * (2 ^ e)

Round(n) == IF n < 0 THEN 0 - RoundNat(0 - n) ELSE RoundNat(n)

FloatAdd(x, y) == Round(x + y)
FloatSub(x, y) == Round(x - y)
FloatMul(x, y) == Round(x * y)

(* ---------------------------- domain model ----------------------------- *)
Item(code, weight) == [code |-> code, weight |-> weight]

LineItem(code, qty) == [code |-> code, qty |-> qty]

Order(number, line_items) == [number |-> number, line_items |-> line_items]

RECURSIVE BoxWeight(_, _)
BoxWeight(line_items, inv) ==
    IF line_items = <<>> THEN 0
    ELSE FloatAdd(BoxWeight(SubSeq(line_items, 1, Len(line_items) - 1), inv),
                  FloatMul(inv[line_items[Len(line_items)].code].weight,
                           line_items[Len(line_items)].qty))

Box(number, line_items, inv) ==
    [number |-> number, line_items |-> line_items,
     weight |-> BoxWeight(line_items, inv)]

RECURSIVE SumBoxWeights(_)
SumBoxWeights(bs) ==
    IF bs = <<>> THEN 0
    ELSE FloatAdd(SumBoxWeights(SubSeq(bs, 1, Len(bs) - 1)), bs[Len(bs)].weight)

PickShip(order_number, bs) ==
    [order_number |-> order_number, boxes |-> bs,
     weight |-> SumBoxWeights(bs)]

(* ---------------------------- bins -------------------------------------- *)
Bin == [items |-> <<>>, weight |-> 0]

BinAdd(bin, item) ==
    [items |-> Append(bin.items, item),
     weight |-> FloatAdd(bin.weight, item.weight)]

(* ---------------------------- unroll ------------------------------------ *)
\* variant: for i in range(1, li.qty)
RepeatFromOne(item, n) == [i \in 1..(n - 1) |-> item]

RECURSIVE Repeat(_, _)
Repeat(item, n) == IF n <= 0 THEN <<>> ELSE Append(Repeat(item, n - 1), item)

(* ---------------------------- sorting ----------------------------------- *)
\* variant: an item is inserted before the items of equal weight
RECURSIVE InsertBeforeEqual(_, _)
InsertBeforeEqual(s, x) ==
    IF s = <<>> THEN <<x>>
    ELSE IF s[Len(s)].weight > x.weight THEN Append(s, x)
    ELSE Append(InsertBeforeEqual(SubSeq(s, 1, Len(s) - 1), x), s[Len(s)])

\* sorted(items, key=weight, reverse=True): descending by weight, stable.
RECURSIVE InsertDescending(_, _)
InsertDescending(s, x) ==
    IF s = <<>> THEN <<x>>
    ELSE IF s[Len(s)].weight >= x.weight THEN Append(s, x)
    ELSE Append(InsertDescending(SubSeq(s, 1, Len(s) - 1), x), s[Len(s)])

\* variant: sorted(items, key=weight) without reverse=True
RECURSIVE InsertAscending(_, _)
InsertAscending(s, x) ==
    IF s = <<>> THEN <<x>>
    ELSE IF s[Len(s)].weight <= x.weight THEN Append(s, x)
    ELSE Append(InsertAscending(SubSeq(s, 1, Len(s) - 1), x), s[Len(s)])

RECURSIVE SortedAscending(_)
SortedAscending(s) ==
    IF s = <<>> THEN <<>>
    ELSE InsertAscending(SortedAscending(SubSeq(s, 1, Len(s) - 1)), s[Len(s)])

\* variant: the items are packed in unroll order
Unsorted(s) == s

RECURSIVE SortedDescending(_)
SortedDescending(s) ==
    IF s = <<>> THEN <<>>
    ELSE InsertDescending(SortedDescending(SubSeq(s, 1, Len(s) - 1)), s[Len(s)])

(* ---------------------------- first fit --------------------------------- *)
\* variant: bins = [Bin()]
OneOpenBin == <<Bin>>

\* bins = []
EmptyBinList == <<>>

\* variant: if item.weight >= capacity: raise
TooHeavyOrEqual(item, cap) == item.weight >= cap

\* if item.weight > capacity: raise
TooHeavy(item, cap) == item.weight > cap

\* variant: item.weight < capacity - bin_.weight
FitsStrictly(bin, item, cap) == item.weight < FloatSub(cap, bin.weight)

Fits(bin, item, cap) == item.weight <= FloatSub(cap, bin.weight)

\* variant: the fullest bin that can take the item (best fit)
BestFit(bs, item, cap) ==
    IF \E i \in 1..Len(bs) : Fits(bs[i], item, cap)
    THEN CHOOSE i \in 1..Len(bs) :
            /\ Fits(bs[i], item, cap)
            /\ \A j \in 1..Len(bs) :
                  Fits(bs[j], item, cap) =>
                      \/ bs[j].weight < bs[i].weight
                      \/ (bs[j].weight = bs[i].weight /\ i <= j)
    ELSE 0

\* index of the first bin that can take the item, 0 when there is none
FirstFit(bs, item, cap) ==
    IF \E i \in 1..Len(bs) : Fits(bs[i], item, cap)
    THEN CHOOSE i \in 1..Len(bs) :
            /\ Fits(bs[i], item, cap)
            /\ \A j \in 1..(i - 1) : ~Fits(bs[j], item, cap)
    ELSE 0

\* variant: bins.insert(0, the_bin)
PlaceNewBinFirst(bs, item, cap) ==
    LET i == FirstFit(bs, item, cap) IN
    IF i = 0 THEN <<BinAdd(Bin, item)>> \o bs
    ELSE [bs EXCEPT ![i] = BinAdd(bs[i], item)]

Place(bs, item, cap) ==
    LET i == FirstFit(bs, item, cap) IN
    IF i = 0 THEN Append(bs, BinAdd(Bin, item))
    ELSE [bs EXCEPT ![i] = BinAdd(bs[i], item)]

(* ---------------------------- reroll ------------------------------------ *)
\* variant: a new code is put in front of the entries
RECURSIVE CounterNewestFirst(_)
CounterNewestFirst(its) ==
    IF its = <<>> THEN <<>>
    ELSE LET c == CounterNewestFirst(SubSeq(its, 1, Len(its) - 1))
             code == its[Len(its)].code
         IN IF \E i \in 1..Len(c) : c[i].code = code
            THEN [i \in 1..Len(c) |->
                    IF c[i].code = code THEN LineItem(code, c[i].qty + 1)
                    ELSE c[i]]
            ELSE <<LineItem(code, 1)>> \o c

\* collections.Counter over the codes, entries in first-encountered order
RECURSIVE Counter(_)
Counter(its) ==
    IF its = <<>> THEN <<>>
    ELSE LET c == Counter(SubSeq(its, 1, Len(its) - 1))
             code == its[Len(its)].code
         IN IF \E i \in 1..Len(c) : c[i].code = code
            THEN [i \in 1..Len(c) |->
                    IF c[i].code = code THEN LineItem(code, c[i].qty + 1)
                    ELSE c[i]]
            ELSE Append(c, LineItem(code, 1))

(* ---------------------------- initial states ---------------------------- *)
RECURSIVE SeqsUpTo(_, _)
SeqsUpTo(S, n) ==
    IF n = 0 THEN {<<>>}
    ELSE LET R == SeqsUpTo(S, n - 1) IN
         R \cup {Append(s, x) : s \in {t \in R : Len(t) = n - 1}, x \in S}

LineItems == {LineItem(c, q) : c \in Codes, q \in Quantities}

SmallInput ==
    /\ inventory \in {[c \in KnownCodes |-> Item(c, w[c])] :
                        w \in [KnownCodes -> Weights]}
    /\ capacity \in Capacities
    /\ order \in {Order(1, ls) : ls \in SeqsUpTo(LineItems, MaxLines)}

\* the reference example: capacity 10, unit weights 6, 5, 4, 3, 2, 2
RefCapacity == 10
RefInventory ==
    [c \in {"a", "b", "c", "d", "e"} |->
        Item(c, CASE c = "a" -> 6 [] c = "b" -> 5 [] c = "c" -> 4
                  [] c = "d" -> 3 [] c = "e" -> 2)]
RefLines5 == <<LineItem("a", 1), LineItem("b", 1), LineItem("c", 1),
               LineItem("d", 1), LineItem("e", 2)>>
RefLines6 == <<LineItem("a", 1), LineItem("b", 1), LineItem("c", 1),
               LineItem("d", 1), LineItem("e", 1), LineItem("e", 1)>>
Permuted(s) ==
    {[i \in 1..Len(s) |-> s[p[i]]] : p \in Permutations(1..Len(s))}

RefInput ==
    /\ inventory = RefInventory
    /\ capacity = RefCapacity
    /\ order \in {Order(2, ls) : ls \in Permuted(RefLines5) \cup Permuted(RefLines6)}

\* inputs whose sums need more than Precision significant bits
RoundingInput ==
    /\ inventory \in {[c \in KnownCodes |-> Item(c, IF c = "a" THEN 7 ELSE w)] :
                        w \in {1, 2}}
    /\ capacity = RefCapacity
    /\ order \in {Order(3, ls) :
                    ls \in SeqsUpTo({LineItem(c, q) : c \in KnownCodes,
                                                     q \in 1..MaxQty}, MaxLines)}

\* inputs where the first bin with room is not the fullest one with room
TightInventory ==
    [c \in {"a", "b", "c"} |->
        Item(c, CASE c = "a" -> 5 [] c = "b" -> 3 [] c = "c" -> 1)]
\* two codes of equal weight next to a heavier one
TieInventory ==
    [c \in {"a", "b", "c"} |->
        Item(c, CASE c = "a" -> 3 [] c = "b" -> 3 [] c = "c" -> 5)]
TightLines == <<LineItem("a", 1), LineItem("b", 2), LineItem("c", 1)>>

TightInput ==
    /\ inventory \in {TightInventory, TieInventory}
    /\ capacity \in {7, 8}
    /\ order \in {Order(4, ls) : ls \in Permuted(TightLines)}

Start ==
    /\ pc = "unroll"
    /\ li = 1
    /\ items = <<>>
    /\ sorted_items = <<>>
    /\ k = 1
    /\ bins = <<>>
    /\ b = 1
    /\ boxes = <<>>
    /\ pickship = <<>>
    /\ err = "none"

\* a line of a file: the literal or prefix it starts with, the text after
\* the prefix, for an order's ITEM line the text after the comma, and the
\* white space around it
Line(pad, text, value, value2) ==
    [pad |-> pad, text |-> text, value |-> value, value2 |-> value2]

\* no file is being read
NoScan ==
    /\ scan = [state |-> "-"]
    /\ line = Line("", "", "", "")
    /\ hist = <<>>

(* ---------------------------- file readers ---------------------------- *)
Pads == {"", " "}

\* line.strip()
Strip(l) == [l EXCEPT !.pad = ""]

\* "if not line"
IsBlank(l) == l.text = "" /\ l.value = "" /\ l.value2 = ""

\* line == literal
Is(l, literal) == l.text = literal /\ l.value = "" /\ l.value2 = ""

\* line.startswith(prefix)
StartsWith(l, prefix) == l.text = prefix

\* float(...) and int(...) of the text after a prefix
IsNumeral(v) == v \in {"1", "2"}
ToNumber(v) == IF v = "1" THEN 1 ELSE 2

EndOfFile == Line("", "<EOF>", "", "")

Last4(s) == IF Len(s) <= 4 THEN s ELSE SubSeq(s, Len(s) - 3, Len(s))

Accepted(sc) == [scan |-> sc, err |-> "none"]
Raised(sc, e) == [scan |-> sc, err |-> e]

\* the line a state of read_inventory takes
InventoryExpects(state, l) ==
    CASE state = "START" -> Is(l, "INVENTORY START")
      [] state = "INVENTORY" -> Is(l, "INVENTORY END") \/ Is(l, "ITEM START")
      [] state = "ITEM" -> StartsWith(l, "CODE: ")
      [] state = "CODE" -> StartsWith(l, "NAME: ")
      [] state = "NAME" -> StartsWith(l, "WEIGHT: ")
      [] state = "WEIGHT" -> Is(l, "ITEM END")
      [] state = "END" -> FALSE

InventoryMessage(state) ==
    CASE state = "START" -> "Missing INVENTORY START line."
      [] state = "INVENTORY" -> "Missing ITEM START or INVENTORY END line."
      [] state = "ITEM" -> "Missing CODE line."
      [] state = "CODE" -> "Missing NAME line."
      [] state = "NAME" -> "Missing WEIGHT line."
      [] state = "WEIGHT" -> "Missing ITEM END line."
      [] state = "END" -> "Found a line after INVENTORY END line."

\* variant: a line the state does not expect is skipped
InventoryMismatchSkipped(sc) == Accepted(sc)

\* the else branches: raise Exception(...)
InventoryMismatch(sc) == Raised(sc, InventoryMessage(sc.state))

\* inventory[code] = Item(code, name, weight)
SetItem(inv, code, weight) ==
    [c \in DOMAIN inv \cup {code} |->
        IF c = code THEN Item(code, weight) ELSE inv[c]]

\* the body of the loop of read_inventory for a stripped, non-blank line
InventoryStep(sc, l) ==
    IF ~InventoryExpects(sc.state, l) THEN InventoryMismatch(sc)
    ELSE CASE sc.state = "START" -> Accepted([sc EXCEPT !.state = "INVENTORY"])
           [] sc.state = "INVENTORY" ->
                Accepted([sc EXCEPT !.state =
                            IF Is(l, "INVENTORY END") THEN "END" ELSE "ITEM"])
           [] sc.state = "ITEM" ->
                Accepted([sc EXCEPT !.state = "CODE", !.code = <<l.value>>])
           [] sc.state = "CODE" ->
                Accepted([sc EXCEPT !.state = "NAME", !.name = <<l.value>>])
           [] sc.state = "NAME" ->
                IF IsNumeral(l.value)
                THEN Accepted([sc EXCEPT !.state = "WEIGHT",
                                         !.weight = <<ToNumber(l.value)>>])
                ELSE Raised([sc EXCEPT !.state = "WEIGHT"], "ValueError")
           [] sc.state = "WEIGHT" ->
                Accepted([sc EXCEPT !.state = "INVENTORY",
                                    !.inventory = SetItem(sc.inventory,
                                                          sc.code[1],
                                                          sc.weight[1])])

InventoryLines ==
    {Line(p, t[1], t[2], "") :
        p \in Pads,
        t \in {<<"", "">>, <<"INVENTORY START", "">>,
               <<"INVENTORY START", "x">>, <<"INVENTORY END", "">>,
               <<"ITEM START", "">>, <<"CODE: ", "a">>, <<"CODE: ", "b">>,
               <<"NAME: ", "n">>, <<"WEIGHT: ", "1">>, <<"WEIGHT: ", "2">>,
               <<"WEIGHT: ", "x">>, <<"ITEM END", "">>, <<"ORDER START", "">>}}

\* the line a state of read_order takes
OrderExpects(state, l) ==
    CASE state = "START" -> Is(l, "ORDER START")
      [] state = "ORDER" -> StartsWith(l, "ORDER NUMBER: ")
      [] state = "CODE" -> StartsWith(l, "CUSTOMER CODE: ")
      [] state = "ITEM" -> StartsWith(l, "ITEM: ") \/ Is(l, "ORDER END")
      [] state = "END" -> FALSE

OrderMessage(state) ==
    CASE state = "START" -> "Missing ORDER START line."
      [] state = "ORDER" -> "Missing ORDER NUMBER line."
      [] state = "CODE" -> "Missing CUSTOMER CODE line."
      [] state = "ITEM" -> "Expected ITEM or ORDER END line."
      [] state = "END" -> "Found a line after ORDER END line."

OrderMismatch(sc) == Raised(sc, OrderMessage(sc.state))

\* the body of the loop of read_order for a stripped, non-blank line; an
\* ITEM line without ", qty" does not match lineitem_regex
OrderStep(sc, l) ==
    IF ~OrderExpects(sc.state, l) THEN OrderMismatch(sc)
    ELSE CASE sc.state = "START" -> Accepted([sc EXCEPT !.state = "ORDER"])
           [] sc.state = "ORDER" ->
                IF IsNumeral(l.value)
                THEN Accepted([sc EXCEPT !.state = "CODE",
                                         !.number = <<ToNumber(l.value)>>])
                ELSE Raised([sc EXCEPT !.state = "CODE"], "ValueError")
           [] sc.state = "CODE" ->
                Accepted([sc EXCEPT !.state = "ITEM",
                                    !.customer_code = <<l.value>>])
           [] sc.state = "ITEM" ->
                IF Is(l, "ORDER END") THEN Accepted([sc EXCEPT !.state = "END"])
                ELSE IF l.value2 = "" THEN Raised(sc, "AttributeError")
                ELSE IF ~IsNumeral(l.value2) THEN Raised(sc, "ValueError")
                ELSE Accepted([sc EXCEPT !.line_items =
                                  Append(sc.line_items,
                                         LineItem(l.value, ToNumber(l.value2)))])

OrderLines ==
    {Line(p, t[1], t[2], t[3]) :
        p \in Pads,
        t \in {<<"", "", "">>, <<"ORDER START", "", "">>,
               <<"ORDER NUMBER: ", "1", "">>, <<"ORDER NUMBER: ", "x", "">>,
               <<"CUSTOMER CODE: ", "c", "">>, <<"ITEM: ", "a", "1">>,
               <<"ITEM: ", "b", "2">>, <<"ITEM: ", "a", "x">>,
               <<"ITEM: ", "a", "">>, <<"ORDER END", "", "">>,
               <<"ORDER END", "x", "">>, <<"INVENTORY START", "", "">>}}

\* make_pickship is not running
NoCall ==
    /\ inventory = [c \in KnownCodes |-> Item(c, 1)]
    /\ capacity = 1
    /\ order = Order(0, <<>>)
    /\ li = 1
    /\ items = <<>>
    /\ sorted_items = <<>>
    /\ k = 1
    /\ bins = <<>>
    /\ b = 1
    /\ boxes = <<>>
    /\ pickship = <<>>
    /\ err = "none"
    /\ handle = <<>>
    /\ run = 1
    /\ prev = <<>>

\* entry of read_inventory
StartReadInventory ==
    /\ pc = "read_inventory"
    /\ scan = [state |-> "START", inventory |-> <<>>, code |-> <<>>,
               name |-> <<>>, weight |-> <<>>]
    /\ line = Line("", "", "", "")
    /\ hist = <<>>

\* entry of read_order
StartReadOrder ==
    /\ pc = "read_order"
    /\ scan = [state |-> "START", number |-> <<>>, customer_code |-> <<>>,
               line_items |-> <<>>]
    /\ line = Line("", "", "", "")
    /\ hist = <<>>

InitCall ==
    /\ SmallInput \/ RefInput \/ RoundingInput \/ TightInput
    /\ Start
    /\ NoScan
    /\ handle = <<>>
    /\ run = 1
    /\ prev = <<>>

InitReaders == NoCall /\ (StartReadInventory \/ StartReadOrder)

(* ---------------------------- make_pickship ------------------------------ *)
\* one iteration of "for li in order.line_items" with a known code
UnrollLineItem ==
    /\ pc = "unroll"
    /\ li <= Len(order.line_items)
    /\ order.line_items[li].code \in DOMAIN inventory
    /\ items' = items \o Repeat(inventory[order.line_items[li].code],
                                order.line_items[li].qty)
    /\ li' = li + 1
    /\ UNCHANGED <<inputs, pc, sorted_items, k, bins, b, boxes, pickship,
                   err, run, prev, handle, parser>>

\* variant: a line item with an unknown code is skipped
UnrollSkipUnknown ==
    /\ pc = "unroll"
    /\ li <= Len(order.line_items)
    /\ order.line_items[li].code \notin DOMAIN inventory
    /\ li' = li + 1
    /\ UNCHANGED <<inputs, pc, items, sorted_items, k, bins, b, boxes,
                   pickship, err, run, prev, handle, parser>>

\* inventory[li.code] raises KeyError
UnrollKeyError ==
    /\ pc = "unroll"
    /\ li <= Len(order.line_items)
    /\ order.line_items[li].code \notin DOMAIN inventory
    /\ pc' = "error"
    /\ err' = KeyError
    /\ UNCHANGED <<inputs, li, items, sorted_items, k, bins, b, boxes,
                   pickship, run, prev, handle, parser>>

\* entry of first_fit_descending_pack: sort, bins = []
EnterPack ==
    /\ pc = "unroll"
    /\ li > Len(order.line_items)
    /\ sorted_items' = SortedDescending(items)
    /\ bins' = EmptyBinList
    /\ k' = 1
    /\ pc' = "pack"
    /\ UNCHANGED <<inputs, li, items, b, boxes, pickship, err, run, prev, handle, parser>>

\* one iteration of "for item in sorted_items" that places the item
PlaceItem ==
    /\ pc = "pack"
    /\ k <= Len(sorted_items)
    /\ ~TooHeavy(sorted_items[k], capacity)
    /\ bins' = Place(bins, sorted_items[k], capacity)
    /\ k' = k + 1
    /\ UNCHANGED <<inputs, pc, li, items, sorted_items, b, boxes, pickship,
                   err, run, prev, handle, parser>>

\* one iteration of "for item in sorted_items" that raises
ItemTooHeavy ==
    /\ pc = "pack"
    /\ k <= Len(sorted_items)
    /\ TooHeavy(sorted_items[k], capacity)
    /\ pc' = "error"
    /\ err' = ItemSizeError
    /\ UNCHANGED <<inputs, li, items, sorted_items, k, bins, b, boxes,
                   pickship, run, prev, handle, parser>>

\* return bins
ReturnBins ==
    /\ pc = "pack"
    /\ k > Len(sorted_items)
    /\ pc' = "reroll"
    /\ b' = 1
    /\ boxes' = <<>>
    /\ UNCHANGED <<inputs, li, items, sorted_items, k, bins, pickship, err,
                   run, prev, handle, parser>>

\* variant: the box is numbered from 1 (enumerate(bins, 1))
RerollBinFromOne ==
    /\ pc = "reroll"
    /\ b <= Len(bins)
    /\ boxes' = Append(boxes, Box(b, Counter(bins[b].items), inventory))
    /\ b' = b + 1
    /\ UNCHANGED <<inputs, pc, li, items, sorted_items, k, bins, pickship,
                   err, run, prev, handle, parser>>

\* variant: the Counter yields its entries in an arbitrary (hash) order
RerollBinAnyOrder ==
    /\ pc = "reroll"
    /\ b <= Len(bins)
    /\ \E ls \in Permuted(Counter(bins[b].items)) :
          boxes' = Append(boxes, Box(b - 1, ls, inventory))
    /\ b' = b + 1
    /\ UNCHANGED <<inputs, pc, li, items, sorted_items, k, bins, pickship,
                   err, run, prev, handle, parser>>

\* one iteration of "for i, bin_ in enumerate(bins)"
RerollBin ==
    /\ pc = "reroll"
    /\ b <= Len(bins)
    /\ boxes' = Append(boxes, Box(b - 1, Counter(bins[b].items), inventory))
    /\ b' = b + 1
    /\ UNCHANGED <<inputs, pc, li, items, sorted_items, k, bins, pickship,
                   err, run, prev, handle, parser>>

\* return PickShip(order.number, boxes)
ReturnPickShip ==
    /\ pc = "reroll"
    /\ b > Len(bins)
    /\ pickship' = <<PickShip(order.number, boxes)>>
    /\ pc' = "done"
    /\ UNCHANGED <<inputs, li, items, sorted_items, k, bins, b, boxes, err,
                   run, prev, handle, parser>>

\* a line written to the handle: its tag and the values formatted into it
Written(tag, code, n) == [tag |-> tag, code |-> code, n |-> n]

WrittenItems(line_items) ==
    [i \in 1..Len(line_items) |->
        Written("ITEM: ", line_items[i].code, line_items[i].qty)]

RECURSIVE WrittenBoxes(_)
WrittenBoxes(bs) ==
    IF bs = <<>> THEN <<>>
    ELSE LET box == bs[Len(bs)] IN
         WrittenBoxes(SubSeq(bs, 1, Len(bs) - 1))
         \o <<Written("BOXSTART: ", "", box.number + 1),
              Written("SHIP WEIGHT: ", "", box.weight)>>
         \o WrittenItems(box.line_items)
         \o <<Written("BOX END", "", 0)>>

\* write_pickship(pickship)
WritePickShip ==
    /\ pc = "done"
    /\ handle' = <<Written("PICK SHIP START", "", 0),
                   Written("ORDER NUMBER: ", "", pickship[1].order_number),
                   Written("TOTAL SHIP WEIGHT: ", "", pickship[1].weight)>>
                 \o WrittenBoxes(pickship[1].boxes)
                 \o <<Written("PICK SHIP END", "", 0)>>
    /\ pc' = "written"
    /\ UNCHANGED <<inputs, li, items, sorted_items, k, bins, b, boxes,
                   pickship, err, run, prev, parser>>

Outcome == [err |-> err, pickship |-> pickship]

\* make_pickship is called again with the same order, inventory and capacity
CallAgain ==
    /\ pc \in {"done", "error"}
    /\ run = 1
    /\ prev' = <<Outcome>>
    /\ run' = 2
    /\ pc' = "unroll"
    /\ li' = 1
    /\ items' = <<>>
    /\ sorted_items' = <<>>
    /\ k' = 1
    /\ bins' = <<>>
    /\ b' = 1
    /\ boxes' = <<>>
    /\ pickship' = <<>>
    /\ err' = "none"
    /\ UNCHANGED <<inputs, handle, parser>>

packing == <<inputs, li, items, sorted_items, k, bins, b, boxes, pickship,
             run, prev, handle>>

\* one iteration of "for line in fh" of read_inventory
ReadInventoryLine ==
    /\ pc = "read_inventory"
    /\ \E l \in InventoryLines :
          /\ line' = l
          /\ IF IsBlank(Strip(l))
             THEN UNCHANGED <<pc, scan, hist, err>>
             ELSE LET r == InventoryStep(scan, Strip(l)) IN
                  /\ scan' = r.scan
                  /\ err' = r.err
                  /\ pc' = IF r.err = "none" THEN pc ELSE "raised"
                  /\ hist' = IF r.err = "none"
                             THEN Last4(Append(hist, Strip(l).text))
                             ELSE hist
    /\ UNCHANGED packing

\* the file is exhausted: return inventory
ReadInventoryReturn ==
    /\ pc = "read_inventory"
    /\ line' = EndOfFile
    /\ pc' = "returned"
    /\ UNCHANGED <<packing, scan, hist, err>>

\* one iteration of "for line in fh" of read_order
ReadOrderLine ==
    /\ pc = "read_order"
    /\ \E l \in OrderLines :
          /\ StartsWith(l, "ITEM: ") => Len(scan.line_items) < MaxLines
          /\ line' = l
          /\ IF IsBlank(Strip(l))
             THEN UNCHANGED <<pc, scan, hist, err>>
             ELSE LET r == OrderStep(scan, Strip(l)) IN
                  /\ scan' = r.scan
                  /\ err' = r.err
                  /\ pc' = IF r.err = "none" THEN pc ELSE "raised"
                  /\ hist' = IF r.err = "none"
                             THEN Last4(Append(hist, Strip(l).text))
                             ELSE hist
    /\ UNCHANGED packing

\* the file is exhausted: return Order(number, customer_code, line_items);
\* a name that was never assigned raises UnboundLocalError
ReadOrderReturn ==
    /\ pc = "read_order"
    /\ line' = EndOfFile
    /\ IF scan.number = <<>> \/ scan.customer_code = <<>>
       THEN pc' = "raised" /\ err' = "UnboundLocalError"
       ELSE pc' = "returned" /\ err' = err
    /\ UNCHANGED <<packing, scan, hist>>

Next ==
    \/ UnrollLineItem
    \/ UnrollKeyError
    \/ EnterPack
    \/ PlaceItem
    \/ ItemTooHeavy
    \/ ReturnBins
    \/ RerollBin
    \/ ReturnPickShip
    \/ CallAgain
    \/ WritePickShip
    \/ ReadInventoryLine
    \/ ReadInventoryReturn
    \/ ReadOrderLine
    \/ ReadOrderReturn

Init == InitCall \/ InitReaders

Spec == Init /\ [][Next]_vars


(* ---------------------------- properties -------------------------------- *)
Terminal == pc \in {"done", "error"}

Lines == order.line_items

AllCodesKnown == \A i \in 1..Len(Lines) : Lines[i].code \in DOMAIN inventory

AllQtyPositive == \A i \in 1..Len(Lines) : Lines[i].qty >= 1

\* some line item with qty >= 1 names an item heavier than the capacity
SomeOrderedItemTooHeavy ==
    \E i \in 1..Len(Lines) :
        /\ Lines[i].qty >= 1
        /\ Lines[i].code \in DOMAIN inventory
        /\ inventory[Lines[i].code].weight > capacity

RECURSIVE QtyOf(_, _)
QtyOf(ls, c) ==
    IF ls = <<>> THEN 0
    ELSE QtyOf(SubSeq(ls, 1, Len(ls) - 1), c)
         + (IF ls[Len(ls)].code = c THEN ls[Len(ls)].qty ELSE 0)

RECURSIVE BoxesQtyOf(_, _)
BoxesQtyOf(bs, c) ==
    IF bs = <<>> THEN 0
    ELSE BoxesQtyOf(SubSeq(bs, 1, Len(bs) - 1), c)
         + QtyOf(bs[Len(bs)].line_items, c)

RECURSIVE LinesWeight(_)
LinesWeight(ls) ==
    IF ls = <<>> THEN 0
    ELSE LinesWeight(SubSeq(ls, 1, Len(ls) - 1))
         + inventory[ls[Len(ls)].code].weight * ls[Len(ls)].qty

Returned == pc = "done" /\ Len(pickship) = 1

Manifest == pickship[1]

\* C1: when a manifest is returned for an order whose codes are all known,
\* whose quantities are all >= 1 and whose items all fit the capacity, then
\* for every code the quantities over all boxes of the manifest sum to the
\* quantities of that code over the order's line items.
QuantityConservation ==
    (Returned /\ AllCodesKnown /\ AllQtyPositive /\ ~SomeOrderedItemTooHeavy)
        => \A c \in DOMAIN inventory :
              BoxesQtyOf(Manifest.boxes, c) = QtyOf(Lines, c)

QuantityConservationWitness ==
    /\ Returned /\ AllCodesKnown /\ AllQtyPositive
    /\ Len(Lines) = 2 /\ Lines[1].code = Lines[2].code
    /\ Len(Manifest.boxes) >= 2

\* C2: every open bin weighs at most the capacity in every state of the
\* packing, and so does every box built from the bins and every box of a
\* returned manifest.
CapacityBound ==
    /\ \A i \in 1..Len(bins) : bins[i].weight <= capacity
    /\ \A i \in 1..Len(boxes) : boxes[i].weight <= capacity
    /\ Returned => \A i \in 1..Len(Manifest.boxes) :
                      Manifest.boxes[i].weight <= capacity

\* C3 as stated: whenever an ordered item (qty >= 1) is heavier than the
\* capacity the run ends with the item-size error and no manifest.
SingleItemRejectionAsStated ==
    (Terminal /\ SomeOrderedItemTooHeavy)
        => (pc = "error" /\ err = ItemSizeError /\ pickship = <<>>)

\* C3 amended: when all codes of the order are known, the run ends with the
\* item-size error and no manifest if some ordered item (qty >= 1) is heavier
\* than the capacity, and with a manifest otherwise (so a weight equal to the
\* capacity is accepted); with an unknown code it ends with KeyError.
SingleItemRejection ==
    Terminal =>
        /\ (AllCodesKnown /\ SomeOrderedItemTooHeavy)
              => (pc = "error" /\ err = ItemSizeError /\ pickship = <<>>)
        /\ (AllCodesKnown /\ ~SomeOrderedItemTooHeavy) => Returned
        /\ ~AllCodesKnown => (pc = "error" /\ err = KeyError)

SingleItemRejectionWitness ==
    /\ pc = "error" /\ err = ItemSizeError
    /\ AllCodesKnown
    /\ Len(Lines) = 2
    /\ inventory[Lines[1].code].weight = capacity
    /\ inventory[Lines[2].code].weight > capacity
    /\ Lines[1].qty >= 1 /\ Lines[2].qty >= 1

\* C4: an order with a line item whose code is not in the inventory never
\* gets past the unroll loop: no sorted sequence, bin, box or manifest ever
\* exists, and the run ends with KeyError.
UnknownCodeFailFast ==
    ~AllCodesKnown =>
        /\ pc \in {"unroll", "error"}
        /\ sorted_items = <<>> /\ bins = <<>> /\ boxes = <<>>
        /\ pickship = <<>>
        /\ Terminal => err = KeyError

UnknownCodeFailFastWitness ==
    /\ pc = "error" /\ err = KeyError
    /\ Len(Lines) = 2
    /\ Lines[2].code \notin DOMAIN inventory /\ Lines[2].qty <= 0
    /\ Len(items) >= 1

\* C5: a call with capacity <= 0 fails and returns no manifest, whatever
\* the order.  (The claim names the error InvalidCapacity; the code raises no
\* error of that name, so the formula asks only that the call fails.)
InvalidCapacityRejected ==
    (capacity <= 0 /\ Terminal) => (pc = "error" /\ pickship = <<>>)

\* C6: an order with a line item of quantity <= 0 fails and returns no
\* manifest.  (The claim names the error InvalidLineItem; the code raises no
\* error of that name, so the formula asks only that the call fails.)
InvalidLineItemRejected ==
    ((\E i \in 1..Len(Lines) : Lines[i].qty <= 0) /\ Terminal)
        => (pc = "error" /\ pickship = <<>>)

\* C7: in a returned manifest every box weighs the sum of weight * qty over
\* its line items, the manifest weighs the sum of its boxes, and the manifest
\* weighs the sum of weight * qty over the order's line items.
WeightConservation ==
    Returned =>
        /\ \A i \in 1..Len(Manifest.boxes) :
              Manifest.boxes[i].weight
                  = LinesWeight(Manifest.boxes[i].line_items)
        /\ Manifest.weight = SumBoxWeights(Manifest.boxes)
        /\ Manifest.weight = LinesWeight(Lines)

\* C8: an order without line items ends, without error, in a manifest with
\* the order's number, no boxes and weight 0.
EmptyOrder ==
    (Lines = <<>> /\ Terminal)
        => /\ pc = "done" /\ err = "none"
           /\ pickship = <<[order_number |-> order.number,
                            boxes |-> <<>>, weight |-> 0]>>

EmptyOrderWitness ==
    /\ Lines = <<>> /\ Returned
    /\ capacity = 0

\* C9: with capacity 10 and unit items of weights 6, 5, 4, 3, 2, 2 unrolled
\* in any order, the packer returns the bins [6,4], [5,3,2], [2] of weights
\* 10, 10 and 2, in that order.
IsReference == inventory = RefInventory /\ capacity = RefCapacity

BinWeights(bin) == [i \in 1..Len(bin.items) |-> bin.items[i].weight]

ReferenceExample ==
    (IsReference /\ pc \in {"reroll", "done"})
        => /\ Len(bins) = 3
           /\ BinWeights(bins[1]) = <<6, 4>> /\ bins[1].weight = 10
           /\ BinWeights(bins[2]) = <<5, 3, 2>> /\ bins[2].weight = 10
           /\ BinWeights(bins[3]) = <<2>> /\ bins[3].weight = 2

ReferenceExampleWitness ==
    /\ IsReference /\ pc = "reroll"
    /\ Len(Lines) = 6
    /\ Lines[1].code = "e" /\ Lines[2].code = "d" /\ Lines[6].code = "a"

IsPrefix(s, t) == Len(s) <= Len(t) /\ SubSeq(t, 1, Len(s)) = s

\* C11: every placement step puts the item into the lowest-index bin b with
\* item.weight <= capacity - b.weight (as the code evaluates it), and only
\* when no bin passes that test appends a new bin, which receives the item.
FirstFitPlacement ==
    [][(pc = "pack" /\ pc' = "pack" /\ k' = k + 1) =>
        LET x == sorted_items[k]
            room(i) == x.weight <= FloatSub(capacity, bins[i].weight)
        IN IF \E i \in 1..Len(bins) : room(i)
           THEN \E i \in 1..Len(bins) :
                   /\ room(i)
                   /\ \A j \in 1..(i - 1) : ~room(j)
                   /\ Len(bins') = Len(bins)
                   /\ bins'[i].items = Append(bins[i].items, x)
           ELSE /\ Len(bins') = Len(bins) + 1
                /\ bins'[Len(bins')].items = <<x>>
                /\ \A i \in 1..Len(bins) : bins'[i] = bins[i]]_vars

\* the item just placed went to bin 1 although bin 2 had room and was fuller
FirstFitPlacementWitness ==
    /\ pc = "pack" /\ k > 1 /\ Len(bins) >= 2
    /\ LET x == sorted_items[k - 1] IN
          /\ bins[1].items[Len(bins[1].items)] = x
          /\ Len(bins[1].items) >= 2
          /\ x.weight <= capacity - bins[2].weight
          /\ bins[2].weight > bins[1].weight - x.weight

\* C12: while the packer runs no item is removed or moved: the bin list only
\* grows at its end, every bin keeps its index and its items as a prefix, and
\* a placement step adds exactly one item to exactly one bin.
AppendOnlyPacking ==
    [][(pc \in {"pack", "reroll"}) =>
        /\ Len(bins') >= Len(bins)
        /\ \A i \in 1..Len(bins) : IsPrefix(bins[i].items, bins'[i].items)
        /\ (pc' = "pack" /\ k' = k + 1) =>
              \E i \in 1..Len(bins') :
                 /\ bins'[i].items
                       = (IF i <= Len(bins) THEN bins[i].items ELSE <<>>)
                         \o <<sorted_items[k]>>
                 /\ \A j \in 1..Len(bins') :
                       j # i => (j <= Len(bins) /\ bins'[j] = bins[j])
        /\ ~(pc' = "pack" /\ k' = k + 1) => bins' = bins]_vars

AppendOnlyPackingWitness ==
    /\ pc = "reroll"
    /\ Len(bins) >= 2
    /\ Len(bins[1].items) >= 2
    /\ Len(bins[2].items) >= 2


\* the unroll sequence: line items in order, qty copies of the item each
RECURSIVE UnrollOf(_)
UnrollOf(ls) ==
    IF ls = <<>> THEN <<>>
    ELSE UnrollOf(SubSeq(ls, 1, Len(ls) - 1))
         \o [i \in 1..ls[Len(ls)].qty |-> inventory[ls[Len(ls)].code]]

OfWeight(s, w) == SelectSeq(s, LAMBDA x : x.weight = w)

\* C13: the packer processes the unrolled items (line-item order, then
\* quantity order) in non-increasing weight order, items of equal weight in
\* the relative order they have in the unroll sequence.
ProcessingOrder ==
    (pc \in {"pack", "reroll", "done"}) =>
        /\ items = UnrollOf(Lines)
        /\ Len(sorted_items) = Len(items)
        /\ \A i, j \in 1..Len(sorted_items) :
              i < j => sorted_items[i].weight >= sorted_items[j].weight
        /\ \A c \in DOMAIN inventory :
              OfWeight(sorted_items, inventory[c].weight)
                  = OfWeight(items, inventory[c].weight)

ProcessingOrderWitness ==
    /\ pc = "pack"
    /\ items # sorted_items
    /\ \E i, j \in 1..Len(sorted_items) :
          /\ i < j
          /\ sorted_items[i].code = "b" /\ sorted_items[j].code = "a"
          /\ sorted_items[i].weight = sorted_items[j].weight

CountOf(its, code) == Cardinality({j \in 1..Len(its) : its[j].code = code})

FirstOf(its, code) ==
    CHOOSE j \in 1..Len(its) :
        /\ its[j].code = code
        /\ \A n \in 1..(j - 1) : its[n].code # code

\* C14: every box has at least one line item, its line items have pairwise
\* distinct codes, each with the number of occurrences of its code in the
\* box's bin as qty (>= 1), in the order in which the codes first occur in
\* the bin; the boxes of a returned manifest are these boxes.
RerollGrouping ==
    /\ \A i \in 1..Len(boxes) :
          LET ls == boxes[i].line_items
              its == bins[i].items
          IN /\ Len(ls) >= 1
             /\ \A n, m \in 1..Len(ls) : n # m => ls[n].code # ls[m].code
             /\ \A j \in 1..Len(its) : \E n \in 1..Len(ls) : ls[n].code = its[j].code
             /\ \A n \in 1..Len(ls) :
                   /\ ls[n].qty = CountOf(its, ls[n].code)
                   /\ ls[n].qty >= 1
             /\ \A n, m \in 1..Len(ls) :
                   n < m => FirstOf(its, ls[n].code) < FirstOf(its, ls[m].code)
    /\ Returned => (Manifest.boxes = boxes /\ Len(boxes) = Len(bins))

RerollGroupingWitness ==
    /\ Returned
    /\ \E i \in 1..Len(Manifest.boxes) :
          LET ls == Manifest.boxes[i].line_items IN
          /\ Len(ls) = 2
          /\ ls[1].code = "b" /\ ls[1].qty = 2
          /\ ls[2].code = "a"

\* C18: whenever the packer raises the item-size error the bin list is
\* empty: the error comes on the first item of the sorted sequence.
OverweightBeforeAnyBin ==
    (err = ItemSizeError) => (pc = "error" /\ bins = <<>> /\ k = 1)

OverweightBeforeAnyBinWitness ==
    /\ err = ItemSizeError
    /\ Len(items) >= 2
    /\ items[1].weight <= capacity
    /\ items[Len(items)].weight > capacity

AllWeightsPositive == \A c \in DOMAIN inventory : inventory[c].weight > 0

\* C19: with positive item weights, in a returned packing every item x of a
\* bin j could not have gone into an earlier bin i: bins[i].weight + x.weight
\* exceeds the capacity; so any two bins together weigh more than the
\* capacity and at most one bin is filled to at most half of the capacity.
FirstFitSeparation ==
    (pc \in {"reroll", "done"} /\ AllWeightsPositive) =>
        /\ \A i, j \in 1..Len(bins) :
              i < j =>
                 /\ \A n \in 1..Len(bins[j].items) :
                       bins[i].weight + bins[j].items[n].weight > capacity
                 /\ bins[i].weight + bins[j].weight > capacity
        /\ Cardinality({i \in 1..Len(bins) : 2 * bins[i].weight <= capacity}) <= 1

FirstFitSeparationWitness ==
    /\ pc = "reroll" /\ AllWeightsPositive
    /\ Len(bins) >= 3
    /\ 2 * bins[Len(bins)].weight <= capacity


WithTag(s, tag) == SelectSeq(s, LAMBDA l : l.tag = tag)

RECURSIVE AllLineItems(_)
AllLineItems(bs) ==
    IF bs = <<>> THEN <<>>
    ELSE AllLineItems(SubSeq(bs, 1, Len(bs) - 1)) \o bs[Len(bs)].line_items

\* C15: a returned manifest has one box per bin, in bin order, the box at
\* position i (counted from 0) with number i and the codes of bin i;
\* write_pickship emits the boxes in that order, labelled 1..n.
BoxNumbering ==
    /\ (pc \in {"done", "written"}) =>
          /\ Len(Manifest.boxes) = Len(bins)
          /\ \A i \in 1..Len(Manifest.boxes) :
                /\ Manifest.boxes[i].number = i - 1
                /\ \A c \in DOMAIN inventory :
                      QtyOf(Manifest.boxes[i].line_items, c)
                          = CountOf(bins[i].items, c)
    /\ (pc = "written") =>
          /\ Len(WithTag(handle, "BOXSTART: ")) = Len(Manifest.boxes)
          /\ \A i \in 1..Len(Manifest.boxes) :
                /\ WithTag(handle, "BOXSTART: ")[i].n = i
                /\ WithTag(handle, "SHIP WEIGHT: ")[i].n = Manifest.boxes[i].weight
          /\ WithTag(handle, "ITEM: ")
                = [i \in 1..Len(AllLineItems(Manifest.boxes)) |->
                      [tag |-> "ITEM: ",
                       code |-> AllLineItems(Manifest.boxes)[i].code,
                       n |-> AllLineItems(Manifest.boxes)[i].qty]]

BoxNumberingWitness ==
    /\ pc = "written"
    /\ Len(Manifest.boxes) >= 3
    /\ Len(Manifest.boxes[2].line_items) >= 2

Reading == pc \in {"read_inventory", "read_order"}

\* the lines a scanner state takes, by reader, as <<reader, state, text>>
Takes ==
    {<<"read_inventory", "START", "INVENTORY START">>,
     <<"read_inventory", "INVENTORY", "INVENTORY END">>,
     <<"read_inventory", "INVENTORY", "ITEM START">>,
     <<"read_inventory", "ITEM", "CODE: ">>,
     <<"read_inventory", "CODE", "NAME: ">>,
     <<"read_inventory", "NAME", "WEIGHT: ">>,
     <<"read_inventory", "WEIGHT", "ITEM END">>,
     <<"read_order", "START", "ORDER START">>,
     <<"read_order", "ORDER", "ORDER NUMBER: ">>,
     <<"read_order", "CODE", "CUSTOMER CODE: ">>,
     <<"read_order", "ITEM", "ITEM: ">>,
     <<"read_order", "ITEM", "ORDER END">>}

Literals ==
    {"INVENTORY START", "INVENTORY END", "ITEM START", "ITEM END",
     "ORDER START", "ORDER END"}

BlankLine(l) == l.text = "" /\ l.value = "" /\ l.value2 = ""

Matches(reader, state, l) ==
    /\ <<reader, state, l.text>> \in Takes
    /\ l.text \in Literals => l.value = ""

\* C16: in both readers a blank line changes nothing; a non-blank line that
\* the scanner state does not take raises and leaves the state where it was;
\* in state END every non-blank line raises; and the inventory of
\* read_inventory changes only on an ITEM END line whose four predecessors
\* among the accepted lines are ITEM START, CODE, NAME, WEIGHT in that order.
ParserStrictness ==
    [][(Reading /\ line' # EndOfFile) =>
          /\ BlankLine(line') => (scan' = scan /\ pc' = pc /\ err' = err)
          /\ (~BlankLine(line') /\ ~Matches(pc, scan.state, line')) =>
                (pc' = "raised" /\ err' # "none" /\ scan'.state = scan.state)
          /\ (~BlankLine(line') /\ scan.state = "END") => pc' = "raised"
          /\ (pc = "read_inventory" /\ scan'.inventory # scan.inventory) =>
                /\ line'.text = "ITEM END"
                /\ hist = <<"ITEM START", "CODE: ", "NAME: ", "WEIGHT: ">>
                /\ pc' = pc]_vars

ParserStrictnessWitness ==
    /\ pc = "raised"
    /\ scan.state = "END"
    /\ "inventory" \in DOMAIN scan
    /\ DOMAIN scan.inventory = KnownCodes
    /\ line.pad = " "

\* C17: a reader returns only when its scanner is in state END at the end of
\* the input.
AcceptanceRequiresEnd == pc = "returned" => scan.state = "END"

====
